---- MODULE Spec2Model ----
(***************************************************************************)
(* The TDLC label generator, src/utils/barcode_qr/tdlc_barcode_qr_python.py *)
(*                                                                         *)
(* The script is straight-line code: three imports (lines 5-7), a QR code  *)
(* made from a literal URL and saved to 'qr.png' (lines 10-11), a Code128  *)
(* barcode made from a literal payload and saved under the base name       *)
(* 'barcode' (lines 14-16).  There is no try/except, no lock, no argument. *)
(*                                                                         *)
(* The state is the filesystem and, for every running instance of the      *)
(* script, its position (the source line it is about to execute), its      *)
(* module-level names (img, Code128, code) and the file it has open.       *)
(* A character is a one-character string; the one non-ASCII character the  *)
(* model knows is written by its code point, "U+00E9".  An image file is   *)
(* the sequence of symbol values the image carries, so that what a reader  *)
(* decodes from a file is computed from what was written to it.            *)
(***************************************************************************)
EXTENDS Integers, Sequences, FiniteSets, TLC

VARIABLES
  url,        \* the argument of qrcode.make (line 10)
  payload,    \* the first argument of Code128 (line 15)
  symbology,  \* the argument of barcode.get_barcode_class (line 14)
  fs,         \* the filesystem: a function from the existing paths to contents
  status,     \* per instance: "off", "idle", "running", "exited", "failed"
  line,       \* per instance: the source line about to run (or that raised)
  loaded,     \* per instance: lines 5-7 have bound qrcode, barcode, ImageWriter
  img,        \* per instance: the name img of line 10
  Code128,    \* per instance: the name Code128 of line 14
  code,       \* per instance: the name code of line 15
  wfd,        \* per instance: the file it has open for writing (its path,
              \* "" if none, and the offset of the next write)
  runs,       \* per instance: how many times it has been launched
  pre,        \* per instance: the filesystem as it was when this run started
  opened,     \* per instance: the paths this run has opened for writing
  wlog,       \* per instance: the paths this run has finished writing, in order
  first       \* per instance: successful runs so far, and what the two files
              \* decoded to at the end of the first of them

vars ==
  << url, payload, symbology, fs, status, line, loaded, img, Code128, code,
     wfd, runs, pre, opened, wlog, first >>

(***************************************************************************)
(* Bounds.                                                                 *)
(***************************************************************************)
MaxRuns == 3

Instances == {"a", "b"}

(***************************************************************************)
(* Characters.                                                             *)
(***************************************************************************)
Printable ==
  <<
    " ", "!", "\"", "#", "$", "%", "&", "'", "(", ")", "*", "+", ",", "-",
    ".", "/", "0", "1", "2", "3", "4", "5", "6", "7", "8", "9", ":", ";",
    "<", "=", ">", "?", "@", "A", "B", "C", "D", "E", "F", "G", "H", "I",
    "J", "K", "L", "M", "N", "O", "P", "Q", "R", "S", "T", "U", "V", "W",
    "X", "Y", "Z", "[", "\\", "]", "^", "_", "U+0060", "a", "b", "c", "d", "e",
    "f", "g", "h", "i", "j", "k", "l", "m", "n", "o", "p", "q", "r", "s",
    "t", "u", "v", "w", "x", "y", "z", "{", "|", "}", "~" >>

\* The code point of a character: 32..126 for printable ASCII, 233 for e-acute.
Ord(c) ==
  IF c = "U+00E9" THEN 233
  ELSE 31 + (CHOOSE i \in 1..Len(Printable) : Printable[i] = c)

Chr(n) == Printable[n - 31]

NoText == [ok |-> FALSE, text |-> << >>]

(***************************************************************************)
(* The literals of the script.                                             *)
(***************************************************************************)
\* A variant of line 10 that names another order.
QR_DATA_OtherOrder ==
  <<
    "h", "t", "t", "p", "s", ":", "/", "/", "w", "w", "w", ".", "t", "h",
    "e", "d", "n", "a", "l", "a", "b", "s", "t", "o", "r", "e", ".", "c",
    "o", "m", "/", "o", "r", "d", "e", "r", "/", "O", "R", "D", "-", "2",
    "0", "2", "5", "-", "0", "0", "2" >>

\* line 10: 'https://www.thednalabstore.com/order/ORD-2025-001'
QR_DATA ==
  <<
    "h", "t", "t", "p", "s", ":", "/", "/", "w", "w", "w", ".", "t", "h",
    "e", "d", "n", "a", "l", "a", "b", "s", "t", "o", "r", "e", ".", "c",
    "o", "m", "/", "o", "r", "d", "e", "r", "/", "O", "R", "D", "-", "2",
    "0", "2", "5", "-", "0", "0", "1" >>

\* line 11: 'qr.png'
QR_PATH == "qr.png"

\* line 14: 'code128'
SYMBOLOGY == "code128"

\* A variant of line 15 that joins order id and SKU with '-'.
BARCODE_DATA_Dash ==
  <<
    "O", "R", "D", "-", "2", "0", "2", "5", "-", "0", "0", "1", "-", "T",
    "S", "-", "0", "0", "1" >>

\* line 15: 'ORD-2025-001|TS-001'
BARCODE_DATA ==
  <<
    "O", "R", "D", "-", "2", "0", "2", "5", "-", "0", "0", "1", "|", "T",
    "S", "-", "0", "0", "1" >>

\* line 16: 'barcode'
BARCODE_BASE == "barcode"

(***************************************************************************)
(* qrcode.make(data), line 10.  The library turns the text into UTF-8      *)
(* bytes and lays them out as one byte-mode segment: the mode indicator 4, *)
(* the byte count, the bytes.  With the library's defaults (error          *)
(* correction M, the version fitted to the data, at most 40) a byte-mode   *)
(* segment holds at most 2331 bytes; more raises DataOverflowError inside  *)
(* make, before any image exists.  (Runs of twenty or more digits or       *)
(* upper-case alphanumerics would get segments of their own; none of the   *)
(* texts here has one.)                                                    *)
(***************************************************************************)
Utf8Char(c) ==
  IF Ord(c) < 128 THEN << Ord(c) >>
  ELSE << 192 + (Ord(c) \div 64), 128 + (Ord(c) % 64) >>

RECURSIVE Utf8(_)
Utf8(s) ==
  IF s = << >> THEN << >> ELSE Utf8Char(Head(s)) \o Utf8(Tail(s))

Utf8Len(s) ==
  Len(s) + Cardinality({ i \in 1..Len(s) : s[i] = "U+00E9" })

QrFits(data) == Utf8Len(data) <= 2331

qrcode_make(data) == << 4, Utf8Len(data) >> \o Utf8(data)

(***************************************************************************)
(* What a QR reader gets from an image: the text of a well-formed          *)
(* byte-mode segment, nothing from anything else.                          *)
(***************************************************************************)
RECURSIVE Utf8Decode(_)
Utf8Decode(b) ==
  IF b = << >> THEN [ok |-> TRUE, text |-> << >>]
  ELSE IF b[1] \in 32..126
    THEN LET r == Utf8Decode(Tail(b))
         IN  [ok |-> r.ok, text |-> << Chr(b[1]) >> \o r.text]
  ELSE IF Len(b) >= 2 /\ b[1] = 195 /\ b[2] = 169
    THEN LET r == Utf8Decode(Tail(Tail(b)))
         IN  [ok |-> r.ok, text |-> << "U+00E9" >> \o r.text]
  ELSE NoText

QrDecode(f) ==
  IF Len(f) >= 2 /\ f[1] = 4 /\ f[2] = Len(f) - 2
  THEN LET r == Utf8Decode(SubSeq(f, 3, Len(f)))
       IN  IF r.ok THEN r ELSE NoText
  ELSE NoText

(***************************************************************************)
(* barcode.get_barcode_class(name), line 14: the class registered under    *)
(* the name, BarcodeNotFoundError for a name that is not registered.       *)
(***************************************************************************)
PROVIDED_BARCODES == {"code128"}

(***************************************************************************)
(* Code128(code, writer=ImageWriter()), line 15, and the symbol it builds. *)
(* The constructor checks every character against the Code128 character    *)
(* set (ASCII 0..127) and raises IllegalCharacterError otherwise.  The     *)
(* symbol is the start code (104, code set B), one value per character     *)
(* (its code point less 32), the checksum (start value plus the sum of     *)
(* position times value, modulo 103) and the stop code (106).  The library *)
(* shortens runs of four or more digits with code set C; a reader gets the *)
(* same text from either form, and the model keeps code set B throughout.  *)
(***************************************************************************)
\* A variant of the constructor that checks nothing.
Code128LegalLax(s) == TRUE

Code128Legal(s) == \A i \in 1..Len(s) : Ord(s[i]) <= 127

Code128Values(s) == [i \in 1..Len(s) |-> Ord(s[i]) - 32]

RECURSIVE WeightedSum(_, _)
WeightedSum(v, n) ==
  IF n = 0 THEN 0 ELSE n * v[n] + WeightedSum(v, n - 1)

Code128Checksum(v) == (104 + WeightedSum(v, Len(v))) % 103

Code128Build(s) ==
  LET v == Code128Values(s)
  IN  << 104 >> \o v \o << Code128Checksum(v), 106 >>

\* What a Code128 reader gets from an image.
Code128Decode(f) ==
  IF /\ Len(f) >= 3
     /\ f[1] = 104
     /\ f[Len(f)] = 106
     /\ \A i \in 2..(Len(f) - 2) : f[i] \in 0..94
     /\ f[Len(f) - 1] = Code128Checksum(SubSeq(f, 2, Len(f) - 2))
  THEN [ok |-> TRUE, text |-> [i \in 1..(Len(f) - 3) |-> Chr(f[i + 1] + 32)]]
  ELSE NoText

\* A variant of the writer that appends no extension.
ImageWriterFilenameBare(base) == base

\* ImageWriter.save: the file name is the base name, a dot, the format.
ImageWriterFilename(base) == base \o "." \o "png"

BARCODE_PATH == ImageWriterFilename(BARCODE_BASE)

(***************************************************************************)
(* Files.  Both saves end in PIL's Image.save(filename).  It opens the     *)
(* file with mode "w+b", which creates it or cuts it to length 0 and       *)
(* leaves the offset at 0; the bytes are then written at the offset, over  *)
(* whatever the file holds there.  A write through a descriptor whose file *)
(* has been unlinked meanwhile changes nothing under the path.  When the   *)
(* write fails, the file stays as the open left it; newer versions of the  *)
(* library unlink it if this open had created it, older ones do not.       *)
(***************************************************************************)
Exists(f, path) == path \in DOMAIN f

Content(f, path) == IF Exists(f, path) THEN f[path] ELSE << >>

FileState(f, path) == << Exists(f, path), Content(f, path) >>

Closed == [path |-> "", pos |-> 0, created |-> FALSE]

\* A variant of open: mode "ab", which keeps the content and writes at the end.
OpenAppend(f, path) ==
  [fs |-> [q \in DOMAIN f \cup {path} |-> Content(f, q)],
   fd |-> [path |-> path, pos |-> Len(Content(f, path)),
           created |-> ~Exists(f, path)]]

Open(f, path) ==
  [fs |-> [q \in DOMAIN f \cup {path} |-> IF q = path THEN << >> ELSE f[q]],
   fd |-> [path |-> path, pos |-> 0, created |-> ~Exists(f, path)]]

Write(f, fd, data) ==
  LET old == Content(f, fd.path)
  IN  [q \in DOMAIN f |->
         IF q = fd.path
         THEN SubSeq(old, 1, fd.pos) \o data
                \o SubSeq(old, fd.pos + Len(data) + 1, Len(old))
         ELSE f[q]]

Remove(f, path) == [q \in DOMAIN f \ {path} |-> f[q]]

AfterFailedWrite(f, fd) ==
  {f} \cup (IF fd.created THEN {Remove(f, fd.path)} ELSE {})

(***************************************************************************)
(* Control flow.  The statements run in source order; an exception is      *)
(* caught nowhere, so it ends the run at the line that raised it and       *)
(* nothing is undone.                                                      *)
(***************************************************************************)
\* A variant of the script with the barcode block before the QR block.
NextLineBarcodeFirst(l) ==
  CASE l = 5  -> 14
    [] l = 14 -> 15
    [] l = 15 -> 16
    [] l = 16 -> 10
    [] l = 10 -> 11
    [] OTHER  -> 17

NextLine(l) ==
  CASE l = 5  -> 10
    [] l = 10 -> 11
    [] l = 11 -> 14
    [] l = 14 -> 15
    [] l = 15 -> 16
    [] OTHER  -> 17

Exits(p) == NextLine(line[p]) > 16

Advance(p) ==
  /\ line' = [line EXCEPT ![p] = NextLine(line[p])]
  /\ status' = [status EXCEPT ![p] = IF Exits(p) THEN "exited" ELSE "running"]

\* A variant with every statement in try/except: pass.
RaiseAndContinue(p, f) ==
  /\ line' = [line EXCEPT ![p] = NextLine(line[p])]
  /\ status' = [status EXCEPT ![p] =
                  IF NextLine(line[p]) > 16 THEN "exited" ELSE "running"]
  /\ fs' = f

\* A variant with a handler that deletes what the run has written so far.
RaiseCleanup(p, f) ==
  /\ line' = line
  /\ status' = [status EXCEPT ![p] = "failed"]
  /\ fs' = [q \in DOMAIN f \ { wlog[p][i] : i \in 1..Len(wlog[p]) } |-> f[q]]

\* An uncaught exception at the current line; f is the filesystem the
\* failed call leaves behind.
Raise(p, f) ==
  /\ line' = line
  /\ status' = [status EXCEPT ![p] = "failed"]
  /\ fs' = f

At(p, l) == status[p] = "running" /\ line[p] = l

\* A variant of the save that waits while another instance has the file open.
MayOpenExclusive(p, path) ==
  /\ wfd[p] = Closed
  /\ \A q \in Instances \ {p} : wfd[q].path # path

\* The save of lines 11 and 16 takes no lock and looks at no other process:
\* all it needs is that this instance is not already in a save.
MayOpen(p, path) == wfd[p] = Closed

Decoded(f) ==
  [qr |-> QrDecode(Content(f, QR_PATH)),
   bc |-> Code128Decode(Content(f, BARCODE_PATH))]

\* Bookkeeping at the end of a run that reached the end of the script.
Record(p, f) ==
  first' = [first EXCEPT ![p] =
              IF ~Exits(p) THEN @
              ELSE IF @.n = 0 THEN [n |-> 1, out |-> Decoded(f)]
              ELSE [@ EXCEPT !.n = @ + 1]]

inputs == << url, payload, symbology >>
names == << loaded, img, Code128, code >>
book == << runs, pre >>

(***************************************************************************)
(* The operations.                                                         *)
(***************************************************************************)
\* `python tdlc_barcode_qr_python.py`: a new run of the script.
Launch(p) ==
  /\ status[p] \in {"idle", "exited", "failed"}
  /\ runs[p] < MaxRuns
  /\ status' = [status EXCEPT ![p] = "running"]
  /\ line' = [line EXCEPT ![p] = 5]
  /\ loaded' = [loaded EXCEPT ![p] = FALSE]
  /\ img' = [img EXCEPT ![p] = << >>]
  /\ Code128' = [Code128 EXCEPT ![p] = ""]
  /\ code' = [code EXCEPT ![p] = [code |-> << >>, writer |-> ""]]
  /\ wfd' = [wfd EXCEPT ![p] = Closed]
  /\ runs' = [runs EXCEPT ![p] = @ + 1]
  /\ pre' = [pre EXCEPT ![p] = fs]
  /\ opened' = [opened EXCEPT ![p] = {}]
  /\ wlog' = [wlog EXCEPT ![p] = << >>]
  /\ UNCHANGED << inputs, fs, first >>

\* lines 5-7: the imports; a missing library raises ImportError.
Import(p) ==
  /\ At(p, 5)
  /\ \E ok \in BOOLEAN :
       IF ok
       THEN loaded' = [loaded EXCEPT ![p] = TRUE] /\ Advance(p) /\ fs' = fs
       ELSE UNCHANGED loaded /\ Raise(p, fs)
  /\ UNCHANGED << inputs, img, Code128, code, wfd, book, opened, wlog, first >>

\* line 10: img = qrcode.make(url)
QrMake(p) ==
  /\ At(p, 10)
  /\ IF QrFits(url)
     THEN img' = [img EXCEPT ![p] = qrcode_make(url)] /\ Advance(p) /\ fs' = fs
     ELSE UNCHANGED img /\ Raise(p, fs)
  /\ UNCHANGED << inputs, loaded, Code128, code, wfd, book, opened, wlog, first >>

\* A save, first half: the file is opened for writing, or cannot be (the
\* destination is not writable).
SaveOpen(p, path) ==
  /\ MayOpen(p, path)
  /\ \E ok \in BOOLEAN :
       IF ok
       THEN /\ fs' = Open(fs, path).fs
            /\ wfd' = [wfd EXCEPT ![p] = Open(fs, path).fd]
            /\ opened' = [opened EXCEPT ![p] = @ \cup {path}]
            /\ UNCHANGED << status, line >>
       ELSE UNCHANGED << wfd, opened >> /\ Raise(p, fs)
  /\ UNCHANGED << inputs, names, book, wlog, first >>

\* A save, second half: the image is written and the file closed, or the
\* write fails (an I/O error).
SaveWrite(p, path, data) ==
  /\ wfd[p].path = path
  /\ wfd' = [wfd EXCEPT ![p] = Closed]
  /\ \E ok \in BOOLEAN :
       IF ok
       THEN /\ fs' = Write(fs, wfd[p], data)
            /\ wlog' = [wlog EXCEPT ![p] = Append(@, path)]
            /\ Record(p, fs')
            /\ Advance(p)
       ELSE /\ UNCHANGED << wlog, first >>
            /\ \E left \in AfterFailedWrite(fs, wfd[p]) : Raise(p, left)
  /\ UNCHANGED << inputs, names, book, opened >>

\* line 11: img.save('qr.png')
ImgSaveOpen(p) == At(p, 11) /\ SaveOpen(p, QR_PATH)

ImgSaveWrite(p) == At(p, 11) /\ SaveWrite(p, QR_PATH, img[p])

\* line 14: Code128 = barcode.get_barcode_class(symbology)
GetBarcodeClass(p) ==
  /\ At(p, 14)
  /\ IF symbology \in PROVIDED_BARCODES
     THEN Code128' = [Code128 EXCEPT ![p] = symbology] /\ Advance(p) /\ fs' = fs
     ELSE UNCHANGED Code128 /\ Raise(p, fs)
  /\ UNCHANGED << inputs, loaded, img, code, wfd, book, opened, wlog, first >>

\* line 15: code = Code128(payload, writer=ImageWriter())
Construct(p) ==
  /\ At(p, 15)
  /\ IF Code128Legal(payload)
     THEN /\ code' = [code EXCEPT ![p] =
                        [code |-> payload, writer |-> "ImageWriter"]]
          /\ Advance(p)
          /\ fs' = fs
     ELSE UNCHANGED code /\ Raise(p, fs)
  /\ UNCHANGED << inputs, loaded, img, Code128, wfd, book, opened, wlog, first >>

\* line 16: code.save('barcode')
CodeSaveOpen(p) == At(p, 16) /\ SaveOpen(p, BARCODE_PATH)

CodeSaveWrite(p) ==
  At(p, 16) /\ SaveWrite(p, BARCODE_PATH, Code128Build(code[p].code))

Next ==
  \E p \in Instances :
    \/ Launch(p)
    \/ Import(p)
    \/ QrMake(p)
    \/ ImgSaveOpen(p)
    \/ ImgSaveWrite(p)
    \/ GetBarcodeClass(p)
    \/ Construct(p)
    \/ CodeSaveOpen(p)
    \/ CodeSaveWrite(p)

(***************************************************************************)
(* Initial states.  The directory the script runs in may hold anything at  *)
(* the three paths: nothing, an empty file, or a label left by an earlier  *)
(* program (longer than the labels this script writes).                    *)
(***************************************************************************)
STALE_QR ==
  qrcode_make(QR_DATA \o << "?", "v", "=", "1" >>)

STALE_BARCODE ==
  Code128Build(BARCODE_DATA \o << "-", "X", "L" >>)

PriorContents == { << >>, STALE_QR, STALE_BARCODE }

KnownPaths == { QR_PATH, BARCODE_PATH, "notes.txt" }

InitialFilesystems ==
  UNION { [D -> PriorContents] : D \in SUBSET KnownPaths }

InitRun(running, launched) ==
  /\ fs \in InitialFilesystems
  /\ status = [p \in Instances |-> IF p \in running THEN "idle" ELSE "off"]
  /\ line = [p \in Instances |-> 5]
  /\ loaded = [p \in Instances |-> FALSE]
  /\ img = [p \in Instances |-> << >>]
  /\ Code128 = [p \in Instances |-> ""]
  /\ code = [p \in Instances |-> [code |-> << >>, writer |-> ""]]
  /\ wfd = [p \in Instances |-> Closed]
  /\ runs = [p \in Instances |-> launched]
  /\ pre = [p \in Instances |-> fs]
  /\ opened = [p \in Instances |-> {}]
  /\ wlog = [p \in Instances |-> << >>]
  /\ first = [p \in Instances |-> [n |-> 0, out |-> Decoded(<< >>)]]

Literals ==
  /\ url = QR_DATA
  /\ payload = BARCODE_DATA
  /\ symbology = SYMBOLOGY

\* The script as written, one instance at a time, run again and again.
Init == Literals /\ InitRun({"a"}, 0)

Spec == Init /\ [][Next]_vars

\* Two instances of the script started in the same directory, each for one
\* run (the last of the runs the bound allows).
InitConc == Literals /\ InitRun(Instances, MaxRuns - 1)

SpecConc == InitConc /\ [][Next]_vars

(***************************************************************************)
(* The two operations on other arguments: generate_qr(url) and             *)
(* generate_barcode(payload) of the specification, that is lines 10-11 and *)
(* 14-16 with the literals replaced by parameters.                         *)
(***************************************************************************)
OVERLONG == [i \in 1..2332 |-> "a"]

QrInputs == { QR_DATA, << "c", "a", "f", "U+00E9" >>, OVERLONG }

BarcodeInputs == { BARCODE_DATA, BARCODE_DATA \o << "-", "U+00E9" >> }

SymbologyInputs == { SYMBOLOGY, "code-128" }

InitInputs ==
  /\ url \in QrInputs
  /\ payload \in BarcodeInputs
  /\ symbology \in SymbologyInputs
  /\ InitRun({"a"}, 0)

SpecInputs == InitInputs /\ [][Next]_vars

(***************************************************************************)
(* The properties.  The values the specification names are written out     *)
(* here, apart from the literals of the script.                            *)
(***************************************************************************)
ORDER_ID ==
  << "O", "R", "D", "-", "2", "0", "2", "5", "-", "0", "0", "1" >>

SKU == << "T", "S", "-", "0", "0", "1" >>

ORDER_URL ==
  << "h", "t", "t", "p", "s", ":", "/", "/", "w", "w", "w", ".", "t", "h",
     "e", "d", "n", "a", "l", "a", "b", "s", "t", "o", "r", "e", ".", "c",
     "o", "m", "/", "o", "r", "d", "e", "r", "/" >> \o ORDER_ID

Text(t) == [ok |-> TRUE, text |-> t]

Active(p) == status[p] \in {"running", "exited", "failed"}

Outputs == {"qr.png", "barcode.png"}

OverCapacity(s) == Utf8Len(s) > 2331

Unencodable128(s) == \E i \in 1..Len(s) : Ord(s[i]) > 127

\* C1.  QR round trip: once the QR step of a run has succeeded (the run is
\* past line 11), there is a file at qr.png and a QR reader decodes it to
\* exactly https://www.thednalabstore.com/order/ORD-2025-001.
C1_QrRoundTrip ==
  \A p \in Instances :
    (Active(p) /\ line[p] > 11) =>
      /\ Exists(fs, "qr.png")
      /\ QrDecode(fs["qr.png"]) = Text(ORDER_URL)

C1_Witness ==
  \E p \in Instances :
    /\ status[p] = "exited"
    /\ ~Exists(pre[p], "qr.png")
    /\ QrDecode(Content(fs, "qr.png")) = Text(ORDER_URL)

\* C2.  Barcode round trip: the payload handed to the Code128 encoder is the
\* order id and the SKU joined by '|', and once the barcode step of a run has
\* succeeded there is a file at barcode.png (the base name 'barcode' plus the
\* writer's extension) that a Code128 reader decodes to ORD-2025-001|TS-001.
C2_BarcodeRoundTrip ==
  \A p \in Instances :
    /\ (Active(p) /\ line[p] > 15) =>
         code[p].code = ORDER_ID \o << "|" >> \o SKU
    /\ status[p] = "exited" =>
         /\ Exists(fs, "barcode" \o ".png")
         /\ Code128Decode(fs["barcode.png"]) = Text(ORDER_ID \o << "|" >> \o SKU)

C2_Witness ==
  \E p \in Instances :
    /\ status[p] = "exited"
    /\ Content(pre[p], "barcode.png") = STALE_BARCODE
    /\ Code128Decode(Content(fs, "barcode.png")).ok

\* C3.  Idempotence: at the end of every successful run, whatever the
\* directory held at the start and however many runs came before, the two
\* files decode to what they decoded to at the end of the first successful
\* run.
C3_Idempotent ==
  \A p \in Instances :
    (status[p] = "exited" /\ first[p].n >= 1) =>
      /\ QrDecode(Content(fs, "qr.png")) = first[p].out.qr
      /\ Code128Decode(Content(fs, "barcode.png")) = first[p].out.bc

C3_Witness ==
  \E p \in Instances :
    /\ status[p] = "exited"
    /\ first[p].n >= 2
    /\ first[p].out.qr.ok
    /\ first[p].out.bc.ok

\* C4.  Fail fast: with a payload its symbology cannot encode (a URL over the
\* QR capacity, a barcode payload with a character outside Code128) the run
\* never gets past the encoding line, never opens the output file, and the
\* file is as it was when the run started.
C4_FailFast ==
  \A p \in Instances :
    Active(p) =>
      /\ OverCapacity(url) =>
           /\ line[p] <= 10
           /\ "qr.png" \notin opened[p]
           /\ FileState(fs, "qr.png") = FileState(pre[p], "qr.png")
      /\ Unencodable128(payload) =>
           /\ line[p] <= 15
           /\ "barcode.png" \notin opened[p]
           /\ FileState(fs, "barcode.png") = FileState(pre[p], "barcode.png")

C4_Witness ==
  \E p \in Instances :
    /\ status[p] = "failed"
    /\ line[p] = 15
    /\ Unencodable128(payload)
    /\ Content(fs, "barcode.png") = STALE_BARCODE

\* C5.  Any failure is fatal: a run is past a line only if that line
\* succeeded (the imports bound the libraries, the QR was encoded, qr.png was
\* written, the class was found, the barcode was constructed, the barcode
\* file was written); a run whose QR step failed has not touched the barcode
\* file; and from a failed run nothing happens but a new launch.
C5_PastOnlyIfDone(p) ==
  /\ line[p] > 5 => loaded[p]
  /\ line[p] > 10 => ~OverCapacity(url) /\ img[p] = qrcode_make(url)
  /\ line[p] > 11 => "qr.png" \in opened[p] /\ Len(wlog[p]) >= 1
  /\ line[p] > 14 => symbology = "code128" /\ Code128[p] = "code128"
  /\ line[p] > 15 => ~Unencodable128(payload) /\ code[p].code = payload
  /\ line[p] > 16 => status[p] = "exited" /\ Len(wlog[p]) = 2
  /\ status[p] = "failed" => wfd[p] = Closed
  /\ (status[p] = "failed" /\ line[p] <= 11) =>
       /\ "barcode.png" \notin opened[p]
       /\ FileState(fs, "barcode.png") = FileState(pre[p], "barcode.png")

C5_FailedStaysFailed ==
  \A p \in Instances :
    status[p] = "failed" =>
      /\ runs'[p] = runs[p] + 1
      /\ line'[p] = 5
      /\ fs' = fs

C5_FailureIsFatal ==
  /\ [](\A p \in Instances : Active(p) => C5_PastOnlyIfDone(p))
  /\ [][C5_FailedStaysFailed]_vars

C5_Witness ==
  \E p \in Instances :
    /\ status[p] = "failed"
    /\ line[p] = 11
    /\ runs[p] = 1
    /\ ~Exists(fs, "barcode.png")

\* C6.  Frame: no step creates, changes or removes a file other than qr.png
\* and barcode.png, and a run opens no other path for writing, so that any
\* number of runs writes at most these two files.
C6_Frame ==
  [][/\ \A path \in (DOMAIN fs \cup DOMAIN fs') \ Outputs :
          FileState(fs', path) = FileState(fs, path)
     /\ \A p \in Instances : opened'[p] \subseteq Outputs]_vars

C6_Witness ==
  \E p \in Instances :
    /\ status[p] = "exited"
    /\ runs[p] >= 2
    /\ first[p].n >= 2
    /\ DOMAIN fs = Outputs \cup {"notes.txt"}
    /\ fs["notes.txt"] = STALE_QR

\* C7.  No protection against concurrent runs: an instance that is about to
\* save can open the output file whatever the other instance is doing, so a
\* state where both have the same file open for writing is reached.
C7_NoLock ==
  \A p \in Instances :
    /\ (At(p, 11) /\ wfd[p] = Closed) =>
         ENABLED (ImgSaveOpen(p) /\ wfd'[p].path = "qr.png")
    /\ (At(p, 16) /\ wfd[p] = Closed) =>
         ENABLED (CodeSaveOpen(p) /\ wfd'[p].path = "barcode.png")

C7_Witness ==
  /\ wfd["a"].path = wfd["b"].path
  /\ wfd["a"].path \in Outputs

C9_QrFirst ==
  \A p \in Instances :
    Active(p) =>
      /\ (code[p].writer # "" \/ "barcode.png" \in opened[p]) =>
           (Len(wlog[p]) >= 1 /\ wlog[p][1] = "qr.png")
      /\ (\E i \in 1..Len(wlog[p]) : wlog[p][i] = "barcode.png") =>
           wlog[p] = << "qr.png", "barcode.png" >>
      /\ status[p] = "exited" => wlog[p] = << "qr.png", "barcode.png" >>

C9_Witness ==
  \E p \in Instances :
    /\ status[p] = "exited"
    /\ runs[p] = 1
    /\ wlog[p] = << "qr.png", "barcode.png" >>
    /\ ~Exists(pre[p], "qr.png")
    /\ ~Exists(pre[p], "barcode.png")

====
